---- MODULE Spec2Model ----
(***************************************************************************)
(* A model of the tic-tac-toe solvers of src/tictactoe.                    *)
(*                                                                         *)
(*   tictactoe03.py  memoized minimax with symmetry batches and            *)
(*                   precomputed permutation templates                     *)
(*   tictactoe01.py  memoized minimax without symmetry                     *)
(*   extract_permutation.py  the extract-then-execute demonstration        *)
(*                                                                         *)
(* Python tuples and lists are TLA+ sequences.  Python indexes from 0 and  *)
(* TLA+ from 1: a Python index i is kept as the number i (moves, loop      *)
(* counters and permutation entries all hold Python's values) and the      *)
(* element it names is seq[i + 1].                                         *)
(***************************************************************************)
EXTENDS Integers, Sequences, FiniteSets, TLC

VARIABLES
    best_responses,   \* self.best_responses of the tictactoe03 solver
    stack,            \* the frames of build_best_responses that are running
    log,              \* the boards of the top-level calls made so far
    prior,            \* best_responses as the latest top-level call found it
    args,             \* the board or list a function is applied to
    result,           \* the function applied to args, and what it returned
    best_responses01, \* self.best_responses of the tictactoe01 solver
    answers           \* the get_best_response calls made so far, with what
                      \* each returned

vars03 == <<best_responses, stack, log, prior>>

varsFun == <<args, result>>

vars01 == <<best_responses01, answers>>

vars == <<best_responses, stack, log, prior, args, result,
          best_responses01, answers>>

-----------------------------------------------------------------------------
(* TicTacToe.__init__ *)

WIDTH == 3

SIZE == WIDTH * WIDTH

NUM_DIAGS == 2

\* Python's None: a value outside every index, mark and outcome range.
None == SIZE + 1

\* A KeyError that leaves the call: another value outside these ranges.
KeyError == SIZE + 2

\* What result holds before any function has been applied.
NoResult == [op |-> "none", player |-> None, out |-> None]

\* The initial best_value of the move loop: below every outcome.
BelowAll == -2

-----------------------------------------------------------------------------
(* Python built-ins used by the solvers *)

\* x[i] for a Python index i
At(seq, i) == seq[i + 1]

\* range(n)
Range(n) == [k \in 1..n |-> k - 1]

\* seq[::-1]
Reversed(seq) == [k \in 1..Len(seq) |-> seq[Len(seq) + 1 - k]]

\* zip(*rows) for WIDTH rows of WIDTH elements
ZipStar(rows) == [c \in 1..WIDTH |-> [r \in 1..Len(rows) |-> rows[r][c]]]

RECURSIVE SumSeq(_)
\* sum(t)
SumSeq(t) == IF t = <<>> THEN 0 ELSE Head(t) + SumSeq(Tail(t))

\* seq.count(x)
Count(seq, x) == Cardinality({k \in 1..Len(seq) : seq[k] = x})

\* seq.index(x): the first Python index holding x
IndexOf(seq, x) == (CHOOSE k \in 1..Len(seq) :
                       /\ seq[k] = x
                       /\ \A l \in 1..(k - 1) : seq[l] # x) - 1

\* Python's bool as a number: True is 1, False is 0
Bool(p) == IF p THEN 1 ELSE 0

\* tuple(seq): the elements of seq, in order, as a tuple
Tuple(seq) == SubSeq(seq, 1, Len(seq))

\* tuple comparison of two pairs, as sorted() applies it
PairLess(p, q) == \/ p[1] < q[1]
                  \/ p[1] = q[1] /\ p[2] < q[2]

-----------------------------------------------------------------------------
(* Flat and nested boards *)

flat_to_nested(flat_list) ==
    [i \in 1..WIDTH |-> SubSeq(flat_list, (i - 1) * WIDTH + 1, i * WIDTH)]

RECURSIVE nested_to_flat(_)
nested_to_flat(nested_list) ==
    IF nested_list = <<>> THEN <<>>
    ELSE Head(nested_list) \o nested_to_flat(Tail(nested_list))

reflect_raw(board) == nested_to_flat(Reversed(flat_to_nested(board)))

rotate_raw(board) == nested_to_flat(ZipStar(Reversed(flat_to_nested(board))))

-----------------------------------------------------------------------------
(* Extracting and executing permutations *)

\* f(A) for the method f that extract_perm is handed
Apply(f, board) ==
    IF f = "rotate_raw" THEN rotate_raw(board) ELSE reflect_raw(board)

\* extract_perm without the sort: f(A) itself is returned
extract_perm_Unsorted(f) == Apply(f, Range(SIZE))

\* [j for i, j in sorted(zip(fA, A))]: the k-th entry is the j of the pair
\* that has exactly k smaller pairs.
extract_perm(f) ==
    LET A    == Range(SIZE)
        fA   == Apply(f, A)
        pair(n) == <<fA[n], A[n]>>
        rank(n) == Cardinality({m \in 1..SIZE : PairLess(pair(m), pair(n))})
    IN  [k \in 1..SIZE |-> pair(CHOOSE n \in 1..SIZE : rank(n) = k - 1)[2]]

\* execute_perm reading through the permutation instead of writing through
\* it: board2[j] = board[perm[j]]
execute_perm_Gather(board, perm) ==
    Tuple([j \in 1..SIZE |-> At(board, At(perm, j - 1))])

\* board2 = [0] * SIZE; for i1, i2 in enumerate(perm): board2[i2] = board[i1]
\* A later assignment to the same slot overrides an earlier one.
execute_perm(board, perm) ==
    CHOOSE board2 \in
        {Tuple([j \in 1..SIZE |->
            LET from == {i1 \in 0..(Len(perm) - 1) : At(perm, i1) = j - 1}
            IN  IF from = {} THEN 0
                ELSE At(b, CHOOSE i1 \in from : \A o \in from : o <= i1)]) :
            b \in {board}} : TRUE

rotation_perm == extract_perm("rotate_raw")

reflection_perm == extract_perm("reflect_raw")

reflect(board) == execute_perm(board, reflection_perm)

\* rotate turning the other way: the template is read through
rotate_Counter(board) == execute_perm_Gather(board, rotation_perm)

rotate(board) == execute_perm(board, rotation_perm)

\* extract_permutation.py: mat0, mat1 and the flattening of rotate1
rotate1(list0) ==
    LET mat0 == [i \in 1..WIDTH |->
                    SubSeq(list0, (i - 1) * WIDTH + 1, i * WIDTH)]
        mat1 == ZipStar(Reversed(mat0))
    IN  nested_to_flat(mat1)

\* extract_permutation.py: list1 = [0] * SIZE;
\* for j, i in enumerate(perm): list1[j] = list0[i]
rotate2(list0, perm) ==
    Tuple([j \in 1..SIZE |->
              IF j <= Len(perm) THEN At(list0, At(perm, j - 1)) ELSE 0])

\* symmetries with the reflections left out: each rotation is yielded twice
symmetries_Turns(board) ==
    LET b0 == board
        b1 == rotate(b0)
        b2 == rotate(b1)
        b3 == rotate(b2)
    IN  <<b0, b0, b1, b1, b2, b2, b3, b3>>

\* The generator's eight yields, in order.
symmetries(board) ==
    LET b0 == board
        b1 == rotate(b0)
        b2 == rotate(b1)
        b3 == rotate(b2)
    IN  <<b0, reflect(b0), b1, reflect(b1), b2, reflect(b2), b3, reflect(b3)>>

NUM_SYMS == 8

\* tictactoe02.py, on nested tuples: tuple(board[::-1])
reflect02(board) == Reversed(board)

\* tictactoe02.py: tuple(zip(*board[::-1]))
rotate02(board) == ZipStar(Reversed(board))

\* tictactoe02.py: the four rotations of board, then the four rotations of
\* the mirror image of the last of them
symmetries02(board) ==
    LET r1 == rotate02(board)
        r2 == rotate02(r1)
        r3 == rotate02(r2)
        r4 == rotate02(r3)
        m1 == rotate02(reflect02(r4))
        m2 == rotate02(m1)
        m3 == rotate02(m2)
        m4 == rotate02(m3)
    IN  <<r1, r2, r3, r4, m1, m2, m3, m4>>

-----------------------------------------------------------------------------
(* check_win *)

get_row(board, i) == SubSeq(board, i * WIDTH + 1, (i + 1) * WIDTH)

get_col(board, j) == [n \in 1..WIDTH |-> At(board, (n - 1) * WIDTH + j)]

get_diag(board, i) ==
    IF i = 0
    THEN [n \in 1..WIDTH |-> At(board, (WIDTH + 1) * (n - 1))]
    ELSE [n \in 1..WIDTH |-> At(board, (WIDTH - 1) + (WIDTH - 1) * (n - 1))]

\* Lines with the two diagonals left out
Lines_NoDiagonals(board) ==
    [n \in 1..WIDTH |-> get_row(board, n - 1)] \o
    [n \in 1..WIDTH |-> get_col(board, n - 1)]

Lines(board) ==
    [n \in 1..WIDTH |-> get_row(board, n - 1)] \o
    [n \in 1..WIDTH |-> get_col(board, n - 1)] \o
    [n \in 1..NUM_DIAGS |-> get_diag(board, n - 1)]

\* check_win without the change to the player's point of view
check_win_FromX(board, player) ==
    LET lines == Lines(board)
        full  == {n \in 1..Len(lines) :
                     \/ SumSeq(lines[n]) = WIDTH
                     \/ SumSeq(lines[n]) = -WIDTH}
    IN  IF full # {}
        THEN LET first == CHOOSE n \in full : \A o \in full : n <= o
             IN  SumSeq(lines[first]) \div WIDTH
        ELSE IF Count(board, 0) = 0 THEN 0 ELSE None

\* The first line whose sum is +-WIDTH decides; otherwise a full board is a
\* draw and anything else is undecided.
check_win(board, player) ==
    LET lines == Lines(board)
        full  == {n \in 1..Len(lines) :
                     \/ SumSeq(lines[n]) = WIDTH
                     \/ SumSeq(lines[n]) = -WIDTH}
    IN  IF full # {}
        THEN LET first  == CHOOSE n \in full : \A o \in full : n <= o
                 winner == SumSeq(lines[first]) \div WIDTH
             IN  winner * Bool(player = 1) - winner * Bool(player = -1)
        ELSE IF Count(board, 0) = 0 THEN 0 ELSE None

-----------------------------------------------------------------------------
(* build_best_responses of tictactoe03.py.                                 *)
(*                                                                         *)
(* stack holds one frame for every call that got past the memo test of     *)
(* line 77, innermost last.  A call whose board is already a key returns   *)
(* at line 78 without doing anything, so it is one step of its caller.     *)
(* Every assignment to best_responses is a step of its own.                *)

EmptyBoard == [n \in 1..SIZE |-> 0]

\* board[:i] + (player,) + board[i+1:]
WithMove(board, i, player) == [board EXCEPT ![i + 1] = player]

\* (0,)*best_move + (player,) + (0,)*(SIZE - best_move - 1)
MoveBoard(best_move, player) == WithMove(EmptyBoard, best_move, player)

\* The dictionary key of a board.  Python keys the dictionary by the tuple
\* itself (two boards are one key iff all their cells agree); the model
\* numbers the tuples over the three marks one to one, cell n being digit n
\* of the number in base 3 (written out for the nine cells of WIDTH = 3).
Key(board) ==
    (board[1] + 1) + 3 * (board[2] + 1) + 9 * (board[3] + 1)
    + 27 * (board[4] + 1) + 81 * (board[5] + 1) + 243 * (board[6] + 1)
    + 729 * (board[7] + 1) + 2187 * (board[8] + 1) + 6561 * (board[9] + 1)

\* the tuple a key stands for
BoardOf(key) == Tuple([n \in 1..SIZE |-> ((key \div 3 ^ (n - 1)) % 3) - 1])

\* board in table
Has(table, board) == Key(board) \in DOMAIN table

\* table[board]
Get(table, board) == table[Key(board)]

\* table[board] = entry
Assign(table, board, entry) == (Key(board) :> entry) @@ table

\* ValueOf without the change of perspective
ValueOf_Unsigned(table, board2) == Get(table, board2)[2]

\* value = -1 * self.best_responses[board2][1]
ValueOf(table, board2) == -1 * Get(table, board2)[2]

\* Better with the comparison made against the initial bound: the latest
\* move always wins
Better_Always(value, best_value) == value > BelowAll

\* Better with ties going to the later move
Better_OrEqual(value, best_value) == value >= best_value

\* if value > best_value:
Better(value, best_value) == value > best_value

\* BatchPairs with the move left where it was for every image
BatchPairs_Untransported(board, player, best_move) ==
    LET boards == symmetries(board)
    IN  Tuple([k \in 1..NUM_SYMS |-> <<boards[k], best_move>>])

\* BatchPairs with the moves one place ahead of the boards
BatchPairs_Shifted(board, player, best_move) ==
    CHOOSE pairs \in
        {Tuple([k \in 1..NUM_SYMS |->
                   <<boards[k], IndexOf(moves[(k % NUM_SYMS) + 1], player)>>]) :
            boards \in {symmetries(board)},
            moves \in {symmetries(MoveBoard(best_move, player))}} : TRUE

\* the (board2, best_move2) pairs of lines 104-107, in the order of zip()
BatchPairs(board, player, best_move) ==
    CHOOSE pairs \in
        {Tuple([k \in 1..NUM_SYMS |->
                   <<boards[k], IndexOf(moves[k], player)>>]) :
            boards \in {symmetries(board)},
            moves \in {symmetries(MoveBoard(best_move, player))}} : TRUE

\* for i in range(SIZE): if board[i] == 0: the first i >= from that passes
\* the test, SIZE when the loop runs out
NextEmpty(board, from) ==
    LET open == {i \in from..(SIZE - 1) : At(board, i) = 0}
    IN  IF open = {} THEN SIZE
        ELSE CHOOSE i \in open : \A o \in open : i <= o

\* The table after the assignments table[pairs[k][1]] = pairs[k][2] made
\* for k = 1, 2, ... in this order: a board that comes up more than once
\* keeps what was assigned last.
AssignAll(table, pairs) ==
    LET at        == Tuple([k \in DOMAIN pairs |-> Key(pairs[k][1])])
        last(key) == CHOOSE k \in DOMAIN pairs :
                         /\ at[k] = key
                         /\ \A j \in DOMAIN pairs : j > k => at[j] # key
    IN  [key \in {at[k] : k \in DOMAIN pairs} |-> pairs[last(key)][2]] @@ table

\* the terminal batch recording a draw whatever the outcome
write_terminal_Drawn(table, board, current_outcome) ==
    LET boards == symmetries(board)
    IN  AssignAll(table, Tuple([k \in 1..NUM_SYMS |->
                                   <<boards[k], <<None, 0>>>>]))

\* lines 82-85: the terminal batch
write_terminal(table, board, current_outcome) ==
    LET boards == symmetries(board)
    IN  AssignAll(table, Tuple([k \in 1..NUM_SYMS |->
                                   <<boards[k], <<None, current_outcome>>>>]))

\* lines 103-107: the symmetry batch
write_batch(table, board, player, best_move, best_value) ==
    LET pairs == BatchPairs(board, player, best_move)
    IN  AssignAll(table, Tuple([k \in 1..NUM_SYMS |->
                                   <<pairs[k][1], <<pairs[k][2], best_value>>>>]))

RECURSIVE build_best_responses(_, _, _)
RECURSIVE explore(_, _, _, _, _, _)

\* lines 89-107 from the empty cell i on (SIZE: the loop is over and the
\* symmetry batch follows): the table the call leaves
explore(table, board, player, i, best_value, best_move) ==
    IF i = SIZE THEN write_batch(table, board, player, best_move, best_value)
    ELSE LET board2 == WithMove(board, i, player)
             table2 == build_best_responses(table, board2, -1 * player)
             value  == ValueOf(table2, board2)
             next   == NextEmpty(board, i + 1)
         IN  IF Better(value, best_value)
             THEN explore(table2, board, player, next, value, i)
             ELSE explore(table2, board, player, next, best_value, best_move)

\* build_best_responses(board, player) as a whole: the table it leaves
build_best_responses(table, board, player) ==
    IF Has(table, board) THEN table
    ELSE LET current_outcome == check_win(board, player)
         IN  IF current_outcome # None
             THEN write_terminal(table, board, current_outcome)
             ELSE explore(table, board, player,
                          NextEmpty(board, 0), BelowAll, None)

\* The frame of a call that missed the memo: lines 80-88.
Frame(board, player) ==
    LET current_outcome == check_win(board, player)
        first == NextEmpty(board, 0)
    IN  [board |-> board, player |-> player,
         current_outcome |-> current_outcome,
         pc |-> IF current_outcome # None THEN "term"
                ELSE IF first = SIZE THEN "batch" ELSE "loop",
         i |-> first, best_value |-> BelowAll, best_move |-> None, k |-> 0]

\* Consider keeping the move and not the value
Consider_ValueLost(f, value) ==
    LET next == NextEmpty(f.board, f.i + 1)
        g    == IF Better(value, f.best_value)
                THEN [f EXCEPT !.best_move = f.i]
                ELSE f
    IN  [g EXCEPT !.i = next,
                  !.pc = IF next = SIZE THEN "batch" ELSE "loop"]

\* if value > best_value: best_value, best_move = value, i; then the loop
\* goes on to the next empty cell, or ends and the symmetry batch starts
Consider(f, value) ==
    LET next == NextEmpty(f.board, f.i + 1)
        g    == IF Better(value, f.best_value)
                THEN [f EXCEPT !.best_value = value, !.best_move = f.i]
                ELSE f
    IN  [g EXCEPT !.i = next,
                  !.pc = IF next = SIZE THEN "batch" ELSE "loop"]

Top == stack[Len(stack)]

SetTop(f) == [stack EXCEPT ![Len(stack)] = f]

Idle == stack = <<>>

\* A top-level call build_best_responses(board, player) starts.
Call(board, player) ==
    /\ Idle
    /\ log' = Append(log, board)
    /\ prior' = best_responses
    /\ stack' = IF Has(best_responses, board)
                THEN stack
                ELSE <<Frame(board, player)>>
    /\ UNCHANGED best_responses
    /\ UNCHANGED <<varsFun, vars01>>

\* for board2 in self.symmetries(board):
\*     self.best_responses[board2] = (None, current_outcome)
TermWrite ==
    /\ ~Idle
    /\ Top.pc = "term"
    /\ \E board2 \in {symmetries(Top.board)[Top.k + 1]} :
          best_responses' =
              Assign(best_responses, board2, <<None, Top.current_outcome>>)
    /\ stack' = SetTop([Top EXCEPT
                           !.k = @ + 1,
                           !.pc = IF Top.k + 1 = NUM_SYMS
                                  THEN "return" ELSE "term"])
    /\ UNCHANGED <<log, prior>>
    /\ UNCHANGED <<varsFun, vars01>>

\* self.build_best_responses(board2, -1 * player) on a board2 that is a key:
\* the call returns at once and lines 99-101 follow
LoopCallHit ==
    /\ ~Idle
    /\ Top.pc = "loop"
    /\ LET board2 == WithMove(Top.board, Top.i, Top.player)
       IN  /\ Has(best_responses, board2)
           /\ stack' = SetTop(Consider(Top, ValueOf(best_responses, board2)))
    /\ UNCHANGED <<best_responses, log, prior>>
    /\ UNCHANGED <<varsFun, vars01>>

\* self.build_best_responses(board2, -1 * player) on a board2 that is no key
LoopCallMiss ==
    /\ ~Idle
    /\ Top.pc = "loop"
    /\ LET board2 == WithMove(Top.board, Top.i, Top.player)
       IN  /\ ~Has(best_responses, board2)
           /\ stack' = Append(stack, Frame(board2, -1 * Top.player))
    /\ UNCHANGED <<best_responses, log, prior>>
    /\ UNCHANGED <<varsFun, vars01>>

\* self.best_responses[board2] = (best_move2, best_value)
BatchWrite ==
    /\ ~Idle
    /\ Top.pc = "batch"
    /\ \E pr \in {BatchPairs(Top.board, Top.player, Top.best_move)[Top.k + 1]} :
          best_responses' =
              Assign(best_responses, pr[1], <<pr[2], Top.best_value>>)
    /\ stack' = SetTop([Top EXCEPT
                           !.k = @ + 1,
                           !.pc = IF Top.k + 1 = NUM_SYMS
                                  THEN "return" ELSE "batch"])
    /\ UNCHANGED <<log, prior>>
    /\ UNCHANGED <<varsFun, vars01>>

\* Return that never gets back to the caller
Return_Never ==
    /\ ~Idle
    /\ Top.pc = "return"
    /\ UNCHANGED vars

\* the call returns; its caller, if any, goes on with lines 99-101
Return ==
    /\ ~Idle
    /\ Top.pc = "return"
    /\ stack' =
          IF Len(stack) = 1 THEN <<>>
          ELSE LET caller == stack[Len(stack) - 1]
               IN  [SubSeq(stack, 1, Len(stack) - 1) EXCEPT
                       ![Len(stack) - 1] =
                           Consider(caller, ValueOf(best_responses, Top.board))]
    /\ UNCHANGED <<best_responses, log, prior>>
    /\ UNCHANGED <<varsFun, vars01>>

Step ==
    \/ TermWrite
    \/ LoopCallHit
    \/ LoopCallMiss
    \/ BatchWrite
    \/ Return

-----------------------------------------------------------------------------
(* Top-level callers *)

\* the number of top-level calls a behaviour makes
MaxCalls == 3

\* start boards other than the empty one have at most this many empty cells
MaxEmpty == 4

\* X moves first, so X is to move when the marks are level
Mover(board) == IF Count(board, 1) = Count(board, -1) THEN 1 ELSE -1

\* One game, move by move: a draw that fills the board.
Playout == <<4, 0, 8, 2, 1, 7, 3, 5, 6>>

RECURSIVE Played(_)
\* the board after the first n moves of Playout
Played(n) ==
    IF n = 0 THEN EmptyBoard
    ELSE LET before == Played(n - 1)
         IN  WithMove(before, Playout[n], Mover(before))

StartBoards == {Played(n) : n \in (SIZE - MaxEmpty)..SIZE}

Init ==
    /\ best_responses = <<>>
    /\ stack = <<>>
    /\ log = <<>>
    /\ prior = <<>>
    /\ args = <<>>
    /\ result = NoResult
    /\ best_responses01 = <<>>
    /\ answers = <<>>

\* Build with a table that starts empty at every top-level call
Build_Forgetful(board, player) ==
    /\ log' = Append(log, board)
    /\ prior' = best_responses
    /\ best_responses' = build_best_responses(<<>>, board, player)
    /\ UNCHANGED stack
    /\ UNCHANGED <<varsFun, vars01>>

\* A top-level call build_best_responses(board, player), start to return.
Build(board, player) ==
    /\ log' = Append(log, board)
    /\ prior' = best_responses
    /\ best_responses' = build_best_responses(best_responses, board, player)
    /\ UNCHANGED stack
    /\ UNCHANGED <<varsFun, vars01>>

\* game.build_best_responses() on a solver that has made no call, as in
\* test_build_best_responses
BuildFull ==
    /\ log = <<>>
    /\ Build(EmptyBoard, 1)

\* game.build_best_responses(board, player) on a board of the game above
BuildBoard ==
    /\ Len(log) < MaxCalls
    /\ \E board \in StartBoards : Build(board, Mover(board))

Next ==
    \/ BuildFull
    \/ BuildBoard

Spec == Init /\ [][Next]_vars

\* The same call step by step, on a solver that has made no call.
CallFresh ==
    /\ log = <<>>
    /\ \E board \in StartBoards : Call(board, Mover(board))

NextFresh ==
    \/ CallFresh
    \/ Step

SpecFresh == Init /\ [][NextFresh]_vars

NextShape ==
    \/ CallFresh
    \/ Step
    \/ BuildFull

\* A solver that has made no call is given one call: on a board of the game
\* step by step, or the full build as a whole.
SpecShape == Init /\ [][NextShape]_vars

\* The interpreter runs a call that has started until it returns: a step
\* that can be taken is taken.
SpecLive == SpecFresh /\ WF_vars(Step)

\* the boards no alternating play produces because the marks are out of
\* balance, with one or two cells left to fill
OffParity ==
    {board \in [1..SIZE -> {-1, 0, 1}] :
        /\ Count(board, 0) \in {1, 2}
        /\ Count(board, 1) - Count(board, -1) \notin {0, 1}}

\* game.build_best_responses(board, player) on such a board, on a solver
\* that has made no call: the code tests nothing about board before the
\* memo test of line 77
BuildOffParity ==
    /\ log = <<>>
    /\ \E board \in OffParity : \E player \in {1, -1} : Build(board, player)

NextOff == BuildOffParity

SpecOff == Init /\ [][NextOff]_vars

-----------------------------------------------------------------------------
(* tictactoe01.py: the solver without symmetries, and get_best_response *)

RECURSIVE build_best_responses01(_, _, _)
RECURSIVE explore01(_, _, _, _, _, _)

\* explore01 leaving the loop after the first empty cell
explore01_FirstOnly(table, board, player, i, best_value, best_move) ==
    IF i = SIZE THEN Assign(table, board, <<best_move, best_value>>)
    ELSE LET board2 == WithMove(board, i, player)
             table2 == build_best_responses01(table, board2, -1 * player)
         IN  Assign(table2, board, <<i, ValueOf(table2, board2)>>)

\* the loop of build_best_responses from cell i on, and the assignment that
\* follows it
explore01(table, board, player, i, best_value, best_move) ==
    IF i = SIZE THEN Assign(table, board, <<best_move, best_value>>)
    ELSE LET board2 == WithMove(board, i, player)
             table2 == build_best_responses01(table, board2, -1 * player)
             value  == ValueOf(table2, board2)
             next   == NextEmpty(board, i + 1)
         IN  IF Better(value, best_value)
             THEN explore01(table2, board, player, next, value, i)
             ELSE explore01(table2, board, player, next, best_value, best_move)

\* build_best_responses(board, player) of tictactoe01.py, start to return
build_best_responses01(table, board, player) ==
    IF Has(table, board) THEN table
    ELSE LET win == check_win(board, player)
         IN  IF win # None
             THEN Assign(table, board, <<None, win>>)
             ELSE explore01(table, board, player, NextEmpty(board, 0),
                            BelowAll, None)

\* self.best_responses[board][0] with the lookup error swallowed
MoveAt_OrNone(table, board) ==
    IF Has(table, board) THEN Get(table, board)[1] ELSE None

\* self.best_responses[board][0]: the move, or the lookup error
MoveAt(table, board) ==
    IF Has(table, board) THEN Get(table, board)[1] ELSE KeyError

\* the number of get_best_response calls a behaviour makes
MaxQueries == 2

\* the board game.build_best_responses(board, player) may have been called
\* on before the queries
PartBoard == Played(SIZE - MaxEmpty)

\* an O before any X, three X and no O, and a line of each mark: no play
\* leads to any of them
Unreachable ==
    {WithMove(EmptyBoard, 4, -1),
     WithMove(WithMove(WithMove(EmptyBoard, 0, 1), 1, 1), 2, 1),
     <<1, 1, 1, -1, -1, -1, 0, 0, 0>>}

\* the boards asked about: before PartBoard in the game, PartBoard, the
\* end of the game, and boards outside the game
QueryBoards ==
    {Played(n) : n \in 0..(SIZE - MaxEmpty)} \cup {Played(SIZE)}
        \cup Unreachable

\* game.build_best_responses(board, player) on a solver that has made no call
BuildBoard01 ==
    /\ best_responses01 = <<>>
    /\ answers = <<>>
    /\ best_responses01' =
           build_best_responses01(best_responses01, PartBoard,
                                  Mover(PartBoard))
    /\ UNCHANGED <<answers, vars03, varsFun>>

\* game.get_best_response(board): the try, and on KeyError the full build
\* and the second lookup.  built is the table self.build_best_responses()
\* leaves; answers records the board and what came back.
GetBestResponse ==
    /\ Len(answers) < MaxQueries
    /\ \E built \in {build_best_responses01(best_responses01, EmptyBoard, 1)} :
          \E board \in QueryBoards :
              IF MoveAt(best_responses01, board) # KeyError
              THEN /\ answers' = Append(answers,
                          [board |-> board,
                           out |-> MoveAt(best_responses01, board)])
                   /\ UNCHANGED best_responses01
              ELSE /\ best_responses01' = built
                   /\ answers' = Append(answers,
                          [board |-> board, out |-> MoveAt(built, board)])
    /\ UNCHANGED <<vars03, varsFun>>

Next01 ==
    \/ BuildBoard01
    \/ GetBestResponse

Spec01 == Init /\ [][Next01]_vars

-----------------------------------------------------------------------------
(* The two solvers side by side, given the same top-level calls *)

\* build_best_responses(board, player) on a tictactoe03 solver and on a
\* tictactoe01 solver, start to return
Both(board, player) ==
    /\ log' = Append(log, board)
    /\ prior' = best_responses
    /\ best_responses' = build_best_responses(best_responses, board, player)
    /\ best_responses01' =
           build_best_responses01(best_responses01, board, player)
    /\ UNCHANGED <<stack, varsFun, answers>>

\* game.build_best_responses() on solvers that have made no call
BothFull ==
    /\ log = <<>>
    /\ Both(EmptyBoard, 1)

\* game.build_best_responses(board, player) on a board of the game
BothBoard ==
    /\ Len(log) < MaxCalls
    /\ \E board \in StartBoards : Both(board, Mover(board))

NextBoth ==
    \/ BothFull
    \/ BothBoard

SpecBoth == Init /\ [][NextBoth]_vars

-----------------------------------------------------------------------------
(* A tictactoe03 call step by step, and a tictactoe01 solver beside it *)

\* game.build_best_responses(board, player) on a tictactoe01 solver that has
\* made no call, for the board the tictactoe03 solver was called on
Build01Same ==
    /\ log # <<>>
    /\ best_responses01 = <<>>
    /\ best_responses01' =
           build_best_responses01(best_responses01, log[1], Mover(log[1]))
    /\ UNCHANGED <<answers, vars03, varsFun>>

\* game.build_best_responses() on a tictactoe01 solver that has made no
\* call, once the tictactoe03 call has returned
Build01Full ==
    /\ log # <<>>
    /\ Idle
    /\ best_responses01 = <<>>
    /\ best_responses01' =
           build_best_responses01(best_responses01, EmptyBoard, 1)
    /\ UNCHANGED <<answers, vars03, varsFun>>

NextTie ==
    \/ CallFresh
    \/ Step
    \/ Build01Same
    \/ Build01Full

SpecTie == Init /\ [][NextTie]_vars

-----------------------------------------------------------------------------
(* The functions, one application each *)

\* the marks of a cell
Marks == {-1, 0, 1}

\* every tuple of SIZE marks, reachable in play or not
Boards == [1..SIZE -> Marks]

\* what the functions are applied to: the boards, and range(SIZE), whose
\* elements tell the positions apart
Inputs == Boards \cup {Range(SIZE)}

InitFun ==
    /\ args \in Inputs
    /\ result = NoResult
    /\ best_responses = <<>>
    /\ stack = <<>>
    /\ log = <<>>
    /\ prior = <<>>
    /\ best_responses01 = <<>>
    /\ answers = <<>>

\* game.check_win(board, player)
CheckWin ==
    /\ result = NoResult
    /\ \E player \in {1, -1} :
          result' = [op |-> "check_win", player |-> player,
                     out |-> check_win(args, player)]
    /\ UNCHANGED <<args, vars03, vars01>>

\* game.rotate(board)
Rotate ==
    /\ result = NoResult
    /\ result' = [op |-> "rotate", player |-> None, out |-> rotate(args)]
    /\ UNCHANGED <<args, vars03, vars01>>

\* game.reflect(board)
Reflect ==
    /\ result = NoResult
    /\ result' = [op |-> "reflect", player |-> None, out |-> reflect(args)]
    /\ UNCHANGED <<args, vars03, vars01>>

\* extract_permutation.py: perm = rotate1(range(SIZE)); rotate2(list0, perm)
Rotate2 ==
    /\ result = NoResult
    /\ LET perm == rotate1(Range(SIZE))
       IN  result' = [op |-> "rotate2", player |-> None,
                      out |-> rotate2(args, perm)]
    /\ UNCHANGED <<args, vars03, vars01>>

\* list(game.symmetries(board)) of tictactoe03.py
Symmetries03 ==
    /\ result = NoResult
    /\ result' = [op |-> "symmetries", player |-> None,
                  out |-> symmetries(args)]
    /\ UNCHANGED <<args, vars03, vars01>>

\* game.symmetries(board) of tictactoe02.py, on the same board as a nested
\* tuple
Symmetries02 ==
    /\ result = NoResult
    /\ result' = [op |-> "symmetries02", player |-> None,
                  out |-> symmetries02(flat_to_nested(args))]
    /\ UNCHANGED <<args, vars03, vars01>>

NextFun ==
    \/ CheckWin
    \/ Rotate
    \/ Reflect
    \/ Rotate2
    \/ Symmetries03
    \/ Symmetries02

SpecFun == InitFun /\ [][NextFun]_vars

-----------------------------------------------------------------------------
(* The game, stated without the solver's code *)

Cells == 0..(SIZE - 1)

RowOf(c) == c \div WIDTH

ColOf(c) == c % WIDTH

CellAt(r, c) == r * WIDTH + c

\* the rows, the columns and the two main diagonals, as sets of cells
LineSets ==
    {{CellAt(r, c) : c \in 0..(WIDTH - 1)} : r \in 0..(WIDTH - 1)} \cup
    {{CellAt(r, c) : r \in 0..(WIDTH - 1)} : c \in 0..(WIDTH - 1)} \cup
    {{CellAt(r, r) : r \in 0..(WIDTH - 1)},
     {CellAt(r, WIDTH - 1 - r) : r \in 0..(WIDTH - 1)}}

HasLineOf(board, mark) ==
    \E line \in LineSets : \A c \in line : At(board, c) = mark

HasLine(board) == HasLineOf(board, 1) \/ HasLineOf(board, -1)

EmptyCells(board) == {c \in Cells : At(board, c) = 0}

GameOver(board) == HasLine(board) \/ EmptyCells(board) = {}

\* the boards one move of the mover away
Children(board) ==
    {WithMove(board, c, Mover(board)) : c \in EmptyCells(board)}

RECURSIVE ReachableIn(_)
\* the boards alternating play reaches in exactly n moves, X first,
\* stopping at a completed line or a full board
ReachableIn(n) ==
    IF n = 0 THEN {EmptyBoard}
    ELSE UNION {Children(b) : b \in {a \in ReachableIn(n - 1) : ~GameOver(a)}}

Reachable == UNION {ReachableIn(n) : n \in 0..SIZE}

\* The eight symmetries of the square, each as the map from a cell to the
\* cell it is carried to.
QuarterTurn == [c \in Cells |-> CellAt(ColOf(c), WIDTH - 1 - RowOf(c))]

RowFlip == [c \in Cells |-> CellAt(WIDTH - 1 - RowOf(c), ColOf(c))]

Identity == [c \in Cells |-> c]

Then(g, h) == [c \in Cells |-> h[g[c]]]

Turns ==
    {Identity, QuarterTurn, Then(QuarterTurn, QuarterTurn),
     Then(QuarterTurn, Then(QuarterTurn, QuarterTurn))}

Symmetries == Turns \cup {Then(t, RowFlip) : t \in Turns}

\* where each cell comes from under g
Back == [g \in Symmetries |-> [d \in Cells |-> CHOOSE c \in Cells : g[c] = d]]

\* the board g carries board to: cell g[c] holds what cell c held
Carried(g, board) == Tuple([n \in 1..SIZE |-> At(board, Back[g][n - 1])])

\* the boards the eight symmetries carry board to
Images(board) == {Carried(g, board) : g \in Symmetries}

\* the symmetries that map board to itself
Stabilizer(board) == {h \in Symmetries : Carried(h, board) = board}

Keys == {BoardOf(k) : k \in DOMAIN best_responses}

MoveOf(board) == Get(best_responses, board)[1]

OutcomeOf(board) == Get(best_responses, board)[2]

\* a full build from the empty board has returned
FullyBuilt == log = <<EmptyBoard>>

-----------------------------------------------------------------------------
\* C1: after a full build, every non-terminal key b with entry (m, v) has
\* b[m] empty, the child with the mover's mark at m is a key, and v is the
\* negation of the child's recorded value.
C1_ZeroSum ==
    FullyBuilt =>
        \A b \in Keys :
            ~GameOver(b) =>
                /\ MoveOf(b) \in EmptyCells(b)
                /\ LET child == WithMove(b, MoveOf(b), Mover(b))
                   IN  /\ Has(best_responses, child)
                       /\ OutcomeOf(b) = -OutcomeOf(child)

C1_Witness ==
    /\ FullyBuilt
    /\ \E b \in Keys : ~GameOver(b) /\ OutcomeOf(b) = 1
    /\ \E b \in Keys : ~GameOver(b) /\ OutcomeOf(b) = -1

-----------------------------------------------------------------------------
\* what the mover gets from moving into cell c, by the recorded values
Worth(board, c) == -OutcomeOf(WithMove(board, c, Mover(board)))

BestWorth(board) ==
    CHOOSE v \in {Worth(board, c) : c \in EmptyCells(board)} :
        \A c \in EmptyCells(board) : Worth(board, c) <= v

\* C2: after a full build, the value recorded for a non-terminal key is the
\* maximum over its empty cells of the negated value recorded for the child,
\* and the recorded move is one of the cells that reach this maximum; the
\* two boards of the test have entries among the ones the test names.
C2_Optimal ==
    FullyBuilt =>
        /\ \A b \in Keys :
              ~GameOver(b) =>
                  /\ \A c \in EmptyCells(b) :
                        Has(best_responses, WithMove(b, c, Mover(b)))
                  /\ OutcomeOf(b) = BestWorth(b)
                  /\ MoveOf(b) \in EmptyCells(b)
                  /\ Worth(b, MoveOf(b)) = BestWorth(b)
        /\ Get(best_responses, <<1, 1, 0, 0, -1, -1, 0, 0, 0>>)
              \in {<<2, 1>>, <<3, 1>>}
        /\ Get(best_responses, <<1, 0, 0, 1, -1, -1, 0, 0, 0>>)
              \in {<<1, 1>>, <<2, 1>>, <<6, 1>>}

\* a key with several best moves and a key with a move that is not best
C2_Witness ==
    /\ FullyBuilt
    /\ \E b \in Keys :
          /\ ~GameOver(b)
          /\ \E c, d \in EmptyCells(b) :
                /\ c # d
                /\ Worth(b, c) = BestWorth(b)
                /\ Worth(b, d) = BestWorth(b)
          /\ \E c \in EmptyCells(b) : Worth(b, c) < BestWorth(b)

-----------------------------------------------------------------------------
\* C4 as claimed: after a full build, for every non-terminal key b and every
\* symmetry g, the move recorded for g(b) is the cell g carries the move
\* recorded for b to.
C4_Equivariant ==
    FullyBuilt =>
        \A b \in Keys :
            ~GameOver(b) =>
                \A g \in Symmetries : \A gb \in {Carried(g, b)} :
                    /\ Has(best_responses, gb)
                    /\ MoveOf(gb) = g[MoveOf(b)]

\* C4 as amended: the move recorded for g(b) is the cell g carries to, from
\* the move recorded for b or from its image under a symmetry that maps b to
\* itself.  For a board that only the identity maps to itself this is the
\* claim as made.
C4_EquivariantUpToStabilizer ==
    FullyBuilt =>
        \A b \in Keys :
            ~GameOver(b) =>
                \A g \in Symmetries : \A gb \in {Carried(g, b)} :
                    /\ Has(best_responses, gb)
                    /\ \E h \in Stabilizer(b) : MoveOf(gb) = g[h[MoveOf(b)]]

\* a key without a symmetry of its own, and a key with one that moves the
\* recorded move
C4_Witness ==
    /\ FullyBuilt
    /\ \E b \in Keys : ~GameOver(b) /\ Stabilizer(b) = {Identity}
    /\ \E b \in Keys :
          /\ ~GameOver(b)
          /\ \E h \in Stabilizer(b) : h[MoveOf(b)] # MoveOf(b)

-----------------------------------------------------------------------------
\* the number of keys the test expects for WIDTH = 3
StateCount == 5478

\* C5: after the full build with WIDTH = 3 the table has 5478 keys, and they
\* are the boards alternating play reaches from the empty board.
C5_ReachableKeys ==
    (FullyBuilt /\ WIDTH = 3) =>
        /\ Cardinality(DOMAIN best_responses) = StateCount
        /\ Keys = Reachable

C5_Witness ==
    /\ FullyBuilt
    /\ WIDTH = 3
    /\ \E b \in Keys : HasLine(b)
    /\ \E b \in Keys : ~HasLine(b) /\ EmptyCells(b) = {}

-----------------------------------------------------------------------------
\* A call returns: a frame is at its return, or the top-level call is over.
\* (A call on a board that is a key returns within a step of its caller and
\* finds and leaves the table as the latest such state had it.)
Returning == Idle \/ Top.pc = "return"

\* C3: whenever a call returns, at any depth, the keys are closed under the
\* eight symmetries and a key and its images have the same recorded value.
C3_SymmetryClosed ==
    Returning =>
        \A b \in Keys : \A gb \in Images(b) :
            /\ Cardinality(Symmetries) = NUM_SYMS
            /\ Has(best_responses, gb)
            /\ OutcomeOf(gb) = OutcomeOf(b)

\* a nested call returns with a key in the table that has eight images
C3_Witness ==
    /\ Len(stack) >= 2
    /\ Top.pc = "return"
    /\ \E b \in Keys : ~GameOver(b) /\ Stabilizer(b) = {Identity}

-----------------------------------------------------------------------------
\* C8: no assignment to best_responses changes the entry of a board that
\* has one, and no key is removed.
C8_AppendOnly ==
    [][\A k \in DOMAIN best_responses :
          /\ k \in DOMAIN best_responses'
          /\ best_responses'[k] = best_responses[k]]_vars

-----------------------------------------------------------------------------
LastCall == log[Len(log)]

\* the latest top-level call is on a board an earlier one was made on
Repeated == \E n \in 1..(Len(log) - 1) : log[n] = LastCall

\* C9: a top-level call on a board an earlier call was made on leaves the
\* table as it was; a later call keeps every entry the table had and, once
\* it has returned, its board is a key.
C9_Idempotent ==
    /\ \A k \in DOMAIN prior :
          /\ k \in DOMAIN best_responses
          /\ best_responses[k] = prior[k]
    /\ (Len(log) >= 1 /\ Repeated) => best_responses = prior
    /\ (Len(log) >= 1 /\ Idle) => Has(best_responses, LastCall)

\* a call on an ancestor of an earlier call's board has returned and has
\* added keys to a table that was not empty
C9_Witness ==
    /\ Idle
    /\ Len(log) >= 2
    /\ ~Repeated
    /\ Has(prior, log[1])
    /\ ~Has(prior, LastCall)
    /\ \A c \in Cells : At(LastCall, c) # 0 => At(log[1], c) = At(LastCall, c)

-----------------------------------------------------------------------------
\* C6: rotate and reflect, which execute the permutations extracted from
\* rotate_raw and reflect_raw, return element for element what rotate_raw
\* and reflect_raw return; rotate2 with the permutation rotate1(range(SIZE))
\* returns what rotate1 returns.
C6_RoundTrip ==
    /\ result.op = "rotate" => result.out = rotate_raw(args)
    /\ result.op = "reflect" => result.out = reflect_raw(args)
    /\ result.op = "rotate2" => result.out = rotate1(args)

\* the three round trips on a list whose elements are all different
C6_Witness ==
    /\ args = Range(SIZE)
    /\ result.op \in {"rotate", "reflect", "rotate2"}
    /\ result.out # args

-----------------------------------------------------------------------------
\* the outcome for player when mark has a complete line
OutcomeFor(player, mark) == IF player = mark THEN 1 ELSE -1

\* the lines in the order rows top to bottom, columns left to right, the
\* diagonal from the top left, the diagonal from the top right
LineOrder ==
    [n \in 1..WIDTH |-> {CellAt(n - 1, c) : c \in 0..(WIDTH - 1)}] \o
    [n \in 1..WIDTH |-> {CellAt(r, n - 1) : r \in 0..(WIDTH - 1)}] \o
    <<{CellAt(r, r) : r \in 0..(WIDTH - 1)},
      {CellAt(r, WIDTH - 1 - r) : r \in 0..(WIDTH - 1)}>>

\* line n of LineOrder is complete with mark
CompleteWith(board, n, mark) == \A c \in LineOrder[n] : At(board, c) = mark

\* the first line of LineOrder that is complete is complete with mark
FirstLineOf(board, mark) ==
    \E n \in DOMAIN LineOrder :
        /\ CompleteWith(board, n, mark)
        /\ \A o \in 1..(n - 1) :
               ~CompleteWith(board, o, 1) /\ ~CompleteWith(board, o, -1)

\* C7 as claimed: check_win returns +1 or -1 from the player's side when one
\* mark has a complete row, column or diagonal and the other mark has none,
\* 0 when no line is complete and no cell is empty, and None in every other
\* case.
C7_AsClaimed ==
    (result.op = "check_win" /\ args \in Boards) =>
        IF \E m \in {1, -1} : HasLineOf(args, m) /\ ~HasLineOf(args, -1 * m)
        THEN \A m \in {1, -1} :
                 (HasLineOf(args, m) /\ ~HasLineOf(args, -1 * m)) =>
                     result.out = OutcomeFor(result.player, m)
        ELSE IF ~HasLine(args) /\ EmptyCells(args) = {}
        THEN result.out = 0
        ELSE result.out = None

\* C7, amended: when some line is complete check_win returns +1 or -1 from
\* the player's side of the mark of the first complete line in the order
\* rows, columns, diagonals, whether or not the other mark has a complete
\* line as well; 0 when no line is complete and no cell is empty; None when
\* no line is complete and some cell is empty.
C7_FirstLineDecides ==
    (result.op = "check_win" /\ args \in Boards) =>
        /\ \A m \in {1, -1} :
              FirstLineOf(args, m) =>
                  result.out = OutcomeFor(result.player, m)
        /\ (~HasLine(args) /\ EmptyCells(args) = {}) => result.out = 0
        /\ (~HasLine(args) /\ EmptyCells(args) # {}) => result.out = None

\* check_win has answered for the mark that moves second on a board where
\* both marks have a complete line and play could not have led there
C7_Witness ==
    /\ result.op = "check_win"
    /\ result.player = -1
    /\ args \in Boards
    /\ HasLineOf(args, 1)
    /\ HasLineOf(args, -1)
    /\ result.out = 1

-----------------------------------------------------------------------------
\* the call a step has just answered
Asked == answers'[Len(answers')]

\* C10: get_best_response on a board that has an entry returns the entry's
\* move and leaves best_responses as it is; on a board without an entry it
\* resolves the game from the empty board and returns the move then
\* recorded; a board still without an entry is no board of the game, the
\* call ends in KeyError, and best_responses holds every board of the game.
C10_GetBestResponse ==
    [][Len(answers') = Len(answers) + 1 =>
          IF Has(best_responses01, Asked.board)
          THEN /\ Asked.out = Get(best_responses01, Asked.board)[1]
               /\ best_responses01' = best_responses01
          ELSE /\ \A b \in Reachable : Has(best_responses01', b)
               /\ \A key \in DOMAIN best_responses01 :
                      /\ key \in DOMAIN best_responses01'
                      /\ best_responses01'[key] = best_responses01[key]
               /\ IF Has(best_responses01', Asked.board)
                  THEN /\ Asked.board \in Reachable
                       /\ Asked.out = Get(best_responses01', Asked.board)[1]
                  ELSE /\ Asked.board \notin Reachable
                       /\ Asked.out = KeyError
                       /\ DOMAIN best_responses01' =
                              {Key(r) : r \in Reachable}]_vars

\* a solver that had resolved only part of the game has answered one call
\* with a move after the full resolution and one with KeyError
C10_Witness ==
    /\ Len(answers) = 2
    /\ answers[1].board = EmptyBoard
    /\ answers[1].out \in 0..(SIZE - 1)
    /\ answers[2].board \in Unreachable
    /\ answers[2].out = KeyError
    /\ Has(best_responses01, EmptyBoard)

-----------------------------------------------------------------------------
\* the marks of board are in balance: X has as many marks as O, or one more
Balanced(board) == Count(board, 1) - Count(board, -1) \in {0, 1}

\* C11: a call of build_best_responses on a board whose fill parity no
\* alternating play produces is rejected: it writes no entry into
\* best_responses.
C11_Rejected ==
    (log # <<>> /\ ~Balanced(log[1])) => best_responses = <<>>

-----------------------------------------------------------------------------
\* the template rotate and reflect execute
TemplateOf(op) == IF op = "rotate" THEN rotation_perm ELSE reflection_perm

\* the transform the template was extracted from
RawOf(op, board) ==
    IF op = "rotate" THEN rotate_raw(board) ELSE reflect_raw(board)

\* C12 as claimed: execute_perm with a stored template reads through it:
\* board2[j] = board[template[j]] for every destination index j.
C12_Gather ==
    result.op \in {"rotate", "reflect"} =>
        \A j \in 0..(SIZE - 1) :
            At(result.out, j) = At(args, At(TemplateOf(result.op), j))

\* C12, amended: execute_perm with a stored template writes through it:
\* board2[template[i]] = board[i] for every source index i, the template
\* names every index once, and template[i] is the index the transform the
\* template was extracted from sends the element at i to.
C12_Scatter ==
    result.op \in {"rotate", "reflect"} =>
        LET template == TemplateOf(result.op)
        IN  /\ {At(template, i) : i \in 0..(SIZE - 1)} = 0..(SIZE - 1)
            /\ \A i \in 0..(SIZE - 1) :
                  /\ At(result.out, At(template, i)) = At(args, i)
                  /\ At(RawOf(result.op, args), At(template, i)) = At(args, i)

\* rotate has run on a list whose elements are all different, and reading
\* through the template would have given another list
C12_Witness ==
    /\ result.op = "rotate"
    /\ args = Range(SIZE)
    /\ result.out # [j \in 1..SIZE |-> At(args, At(rotation_perm, j - 1))]

-----------------------------------------------------------------------------
\* the boards of a sequence of boards
Yielded(boards) == {boards[k] : k \in DOMAIN boards}

\* C13: symmetries yields 8 boards whose set is the four rotations of the
\* board and their reflections, rotate being the quarter turn clockwise
\* and reflect the exchange of the top and bottom rows; the 8 boards are
\* all different when the board has no symmetry of its own; and
\* tictactoe02 yields the same set.
C13_Orbit ==
    /\ result.op = "rotate" =>
          /\ result.out = Carried(QuarterTurn, args)
          /\ args = Range(SIZE) => result.out = <<6, 3, 0, 7, 4, 1, 8, 5, 2>>
    /\ result.op = "reflect" =>
          /\ result.out = Carried(RowFlip, args)
          /\ args = Range(SIZE) => result.out = <<6, 7, 8, 3, 4, 5, 0, 1, 2>>
    /\ result.op = "symmetries" =>
          /\ Len(result.out) = 8
          /\ Yielded(result.out) =
                 {Carried(t, args) : t \in Turns} \cup
                 {Carried(RowFlip, Carried(t, args)) : t \in Turns}
          /\ Stabilizer(args) = {Identity} =>
                 Cardinality(Yielded(result.out)) = 8
          /\ Yielded(result.out) =
                 {nested_to_flat(board) :
                     board \in Yielded(symmetries02(flat_to_nested(args)))}
    /\ result.op = "symmetries02" =>
          /\ Len(result.out) = 8
          /\ {nested_to_flat(board) : board \in Yielded(result.out)} =
                 Yielded(symmetries(args))

\* symmetries has yielded eight different boards
C13_Witness ==
    /\ result.op = "symmetries"
    /\ args \in Boards
    /\ Stabilizer(args) = {Identity}
    /\ Cardinality(Yielded(result.out)) = 8

-----------------------------------------------------------------------------
RECURSIVE FollowingIn(_, _)
\* the boards alternating play reaches from board in exactly n moves
FollowingIn(board, n) ==
    IF n = 0 THEN {board}
    ELSE UNION {Children(b) :
                   b \in {a \in FollowingIn(board, n - 1) : ~GameOver(a)}}

\* the boards that can follow from board, board included
Following(board) ==
    IF board = EmptyBoard THEN Reachable
    ELSE UNION {FollowingIn(board, n) :
                   n \in 0..Cardinality(EmptyCells(board))}

\* the boards that are keys of the tictactoe01 solver
Keys01 == {BoardOf(k) : k \in DOMAIN best_responses01}

\* C14: once a top-level call on a board of the game has returned, every
\* board that can follow from that board, the board included, is a key; and
\* every child of a non-terminal key is a key.  In both solvers.
C14_FollowersAreKeys ==
    /\ \A n \in DOMAIN log :
          \A b \in Following(log[n]) :
              Has(best_responses, b) /\ Has(best_responses01, b)
    /\ \A b \in Keys :
          ~GameOver(b) => \A c \in Children(b) : Has(best_responses, c)
    /\ \A b \in Keys01 :
          ~GameOver(b) => \A c \in Children(b) : Has(best_responses01, c)

\* a call on a board with more than one way to go on has returned
C14_Witness ==
    /\ Len(log) = 1
    /\ log[1] # EmptyBoard
    /\ ~GameOver(log[1])
    /\ Cardinality(Following(log[1])) > NUM_SYMS
    /\ Cardinality(DOMAIN best_responses01) = Cardinality(Following(log[1]))

-----------------------------------------------------------------------------
\* what the mover of board gets from moving into cell c, by the values
\* recorded in table
WorthIn(table, board, c) == -Get(table, WithMove(board, c, Mover(board)))[2]

\* the smallest empty cell of board whose worth is the greatest
LowestBest(table, board) ==
    CHOOSE c \in EmptyCells(board) :
        /\ \A d \in EmptyCells(board) :
              WorthIn(table, board, d) <= WorthIn(table, board, c)
        /\ \A d \in EmptyCells(board) :
              d < c => WorthIn(table, board, d) < WorthIn(table, board, c)

\* C15: when the loop over the empty cells of a board is over, best_move
\* is the smallest empty cell whose negated child value is the greatest;
\* tictactoe01 records this move for every non-terminal key, and (2, 1) for
\* the board (1,1,0, 0,-1,-1, 0,0,0).
C15_LowestIndex ==
    /\ \A n \in DOMAIN stack :
          stack[n].pc = "batch" =>
              /\ stack[n].best_move = LowestBest(best_responses, stack[n].board)
              /\ stack[n].best_value =
                     WorthIn(best_responses, stack[n].board, stack[n].best_move)
    /\ \A b \in Keys01 :
          ~GameOver(b) =>
              Get(best_responses01, b)[1] = LowestBest(best_responses01, b)
    /\ Has(best_responses01, <<1, 1, 0, 0, -1, -1, 0, 0, 0>>) =>
          Get(best_responses01, <<1, 1, 0, 0, -1, -1, 0, 0, 0>>) = <<2, 1>>

\* the loop is over on a board where two cells are both best, and the
\* tictactoe01 solver records the same move for the board
C15_Witness ==
    /\ ~Idle
    /\ Top.pc = "batch"
    /\ \E c, d \in EmptyCells(Top.board) :
          /\ c < d
          /\ Top.best_move = c
          /\ WorthIn(best_responses, Top.board, d) = Top.best_value
    /\ Has(best_responses01, Top.board)
    /\ Get(best_responses01, Top.board) = <<Top.best_move, Top.best_value>>

-----------------------------------------------------------------------------
\* frame n + 1 of the stack is a call made by frame n: its board is the
\* caller's with one empty cell filled by the caller's player, and the other
\* player is to move
Descends(n) ==
    /\ stack[n + 1].player = -1 * stack[n].player
    /\ Cardinality(EmptyCells(stack[n + 1].board)) =
           Cardinality(EmptyCells(stack[n].board)) - 1
    /\ \E c \in EmptyCells(stack[n].board) :
          stack[n + 1].board =
              [stack[n].board EXCEPT ![c + 1] = stack[n].player]

\* every call that is running was made on a board with one empty cell fewer
\* than its caller's, and the calls nested in the top-level one are never
\* more than the empty cells of its board, so never more than SIZE
Descent ==
    /\ \A n \in 1..(Len(stack) - 1) : Descends(n)
    /\ stack # <<>> =>
          /\ stack[1].board = log[1]
          /\ Len(stack) - 1 <= Cardinality(EmptyCells(log[1]))
          /\ Len(stack) - 1 <= SIZE

\* C16: every recursive call of build_best_responses is made on a board
\* with exactly one empty cell fewer than its caller's, filled and never
\* cleared, the recursion is never deeper than SIZE, and a top-level call
\* that has started returns.
C16_Terminates == [](Descent) /\ (~Idle ~> Idle)

\* a call that had to recurse has returned
C16_Witness ==
    /\ Idle
    /\ log # <<>>
    /\ ~GameOver(log[1])
    /\ Cardinality(DOMAIN best_responses) > NUM_SYMS

-----------------------------------------------------------------------------
\* the board the next assignment of the running batch is made to
BatchBoard == symmetries(Top.board)[Top.k + 1]

\* C17: assignment i of the symmetry batch for board b, move m and mover p
\* records for the i-th image of b a move m_i into a cell that is empty
\* there, and the i-th image of b with p at m_i is the i-th image of b with
\* p at m.
C17_LockStep ==
    [][(~Idle /\ Top.pc = "batch") =>
          /\ Has(best_responses', BatchBoard)
          /\ Get(best_responses', BatchBoard)[2] = Top.best_value
          /\ \E m_i \in {Get(best_responses', BatchBoard)[1]} :
                /\ m_i \in Cells
                /\ At(BatchBoard, m_i) = 0
                /\ WithMove(BatchBoard, m_i, Top.player) =
                       symmetries(WithMove(Top.board, Top.best_move,
                                           Top.player))[Top.k + 1]]_vars

\* a batch is under way for a board with eight different images, and the
\* move just recorded is not the move chosen for the board itself
C17_Witness ==
    /\ ~Idle
    /\ Top.pc = "batch"
    /\ Top.k >= 2
    /\ Stabilizer(Top.board) = {Identity}
    /\ Get(best_responses, symmetries(Top.board)[Top.k])[1] # Top.best_move

-----------------------------------------------------------------------------
\* C18: at every moment of a build and after it, the entry (m, v) of a key
\* b has v in {-1, 0, 1}; m is None exactly when b has a completed line or
\* no empty cell, and then v is check_win(b, mover of b); otherwise m is an
\* empty cell of b.  After the full build the two boards of the test have
\* the entries (None, -1) and (None, 0).
C18_EntryShape ==
    /\ \A b \in Keys :
          /\ OutcomeOf(b) \in {-1, 0, 1}
          /\ MoveOf(b) = None <=> GameOver(b)
          /\ GameOver(b) => OutcomeOf(b) = check_win(b, Mover(b))
          /\ ~GameOver(b) => MoveOf(b) \in EmptyCells(b)
    /\ FullyBuilt =>
          /\ Get(best_responses, <<1, -1, 1, -1, 1, -1, 1, -1, 1>>)
                 = <<None, -1>>
          /\ Get(best_responses, <<1, 1, -1, -1, -1, 1, 1, 1, -1>>)
                 = <<None, 0>>

\* a build is under way and the table holds an entry with a move and an
\* entry without one
C18_Witness ==
    /\ ~Idle
    /\ \E b \in Keys : MoveOf(b) = None /\ OutcomeOf(b) = -1
    /\ \E b \in Keys : MoveOf(b) \in EmptyCells(b) /\ OutcomeOf(b) = 1

-----------------------------------------------------------------------------
\* the move and the value the tictactoe01 solver records for board
MoveOf01(board) == Get(best_responses01, board)[1]

OutcomeOf01(board) == Get(best_responses01, board)[2]

\* C19: after a full build by both solvers, tictactoe03 and tictactoe01
\* have the same keys and the same value for every key, and the two moves
\* of a key are both None or are both empty cells whose worth is the value
\* of the key.  After any calls, a key of tictactoe01 is a key of
\* tictactoe03 with the same value.
C19_SameValues ==
    /\ \A b \in Keys01 :
          Has(best_responses, b) /\ OutcomeOf(b) = OutcomeOf01(b)
    /\ FullyBuilt =>
          /\ DOMAIN best_responses = DOMAIN best_responses01
          /\ \A b \in Keys :
                /\ OutcomeOf(b) = OutcomeOf01(b)
                /\ MoveOf(b) = None <=> MoveOf01(b) = None
                /\ MoveOf(b) # None =>
                      /\ MoveOf(b) \in EmptyCells(b)
                      /\ MoveOf01(b) \in EmptyCells(b)
                      /\ WorthIn(best_responses, b, MoveOf(b)) = OutcomeOf(b)
                      /\ WorthIn(best_responses01, b, MoveOf01(b))
                             = OutcomeOf(b)
                      /\ WorthIn(best_responses01, b, MoveOf(b))
                             = OutcomeOf01(b)

\* both solvers have made the full build and record different moves for
\* some key
C19_Witness ==
    /\ FullyBuilt
    /\ Cardinality(DOMAIN best_responses01) = StateCount
    /\ \E b \in Keys : MoveOf(b) # MoveOf01(b)

====
